---- MODULE Spec2Model ----
(***************************************************************************)
(* tinysearch (src/tiny.py): make_index builds an inverted index of the    *)
(* *.txt files of a directory and saves it as three files under .tiny      *)
(* (documents.csv, index.dat, terms.csv); Index loads the two tables,      *)
(* lookup decodes one term's byte range of index.dat and search ranks      *)
(* documents by tf * idf.                                                  *)
(*                                                                         *)
(* Texts are sequences of characters, words are sequences of lower-case    *)
(* characters, index.dat is a sequence of bytes (0..255).  A csv file is   *)
(* its sequence of rows.  Scores are IEEE doubles in the program; here     *)
(* they are fixed-point integers, see LnMilli and Score.                   *)
(***************************************************************************)
EXTENDS Integers, Sequences, FiniteSets, TLC

\* ------------------------------------------------------------- helpers

Range(s) == {s[i] : i \in 1..Len(s)}

Min(a, b) == IF a < b THEN a ELSE b

\* Python's s[a:b] for 0 <= a, with b clipped to the length of s.
Slice(s, a, b) ==
    IF a >= Min(b, Len(s)) THEN <<>> ELSE SubSeq(s, a + 1, Min(b, Len(s)))

\* All sequences over S of length at most n.
SeqsUpTo(S, n) == UNION {[1..k -> S] : k \in 0..n}

\* ------------------------------------------- Phase 1: words (tiny.py 8-9)

LowerChars == {"a", "b"}
UpperChars == {"A", "B"}
SepChars == {" ", "."}
Chars == LowerChars \cup UpperChars \cup SepChars

\* str.lower() on one character.
Lower(c) == IF c = "A" THEN "a" ELSE IF c = "B" THEN "b" ELSE c

\* The class \w of the regular expression.
IsWordChar(c) == c \in LowerChars \cup UpperChars

LowerText(text) == [i \in 1..Len(text) |-> Lower(text[i])]

\* re.findall(r"\w+", t): the maximal runs of word characters, left to right.
\* cur is the run being read, acc the runs already closed.
RECURSIVE FindAll(_, _, _)
FindAll(t, cur, acc) ==
    IF t = <<>>
    THEN IF cur = <<>> THEN acc ELSE Append(acc, cur)
    ELSE IF IsWordChar(Head(t))
         THEN FindAll(Tail(t), Append(cur, Head(t)), acc)
         ELSE FindAll(Tail(t), <<>>, IF cur = <<>> THEN acc ELSE Append(acc, cur))

words(text) == FindAll(LowerText(text), <<>>, <<>>)

\* --------------------------------- struct.pack / array.tobytes (57-60)

ByteBase == 256
WordBytes == 4
HeaderBytes == 8

\* One unsigned 32-bit integer, little endian (struct "=I", array 'I').
Pack32(v) ==
    << v % ByteBase,
       (v \div ByteBase) % ByteBase,
       (v \div (ByteBase * ByteBase)) % ByteBase,
       (v \div (ByteBase * ByteBase * ByteBase)) % ByteBase >>

\* Faulty variant of Unpack32: the bytes read in big-endian order.
Unpack32BigEndian(b) ==
    b[4] + ByteBase * (b[3] + ByteBase * (b[2] + ByteBase * b[1]))

Unpack32(b) ==
    b[1] + ByteBase * (b[2] + ByteBase * (b[3] + ByteBase * b[4]))

\* array.tobytes(): the items, 4 bytes each.
RECURSIVE ToBytes(_)
ToBytes(offsets) ==
    IF offsets = <<>> THEN <<>> ELSE Pack32(Head(offsets)) \o ToBytes(Tail(offsets))

\* array.frombytes(b), for Len(b) a multiple of 4.
RECURSIVE FromBytes(_)
FromBytes(b) ==
    IF b = <<>> THEN <<>>
    ELSE <<Unpack32(SubSeq(b, 1, WordBytes))>> \o FromBytes(SubSeq(b, WordBytes + 1, Len(b)))

\* One posting: struct.pack("=II", doc_id, len(offsets)) + offsets.tobytes().
PackHit(hit) == Pack32(hit.doc_id) \o Pack32(Len(hit.offsets)) \o ToBytes(hit.offsets)

\* The bytes of one term's postings list (lines 55-60).
RECURSIVE PackHits(_)
PackHits(hits) ==
    IF hits = <<>> THEN <<>> ELSE PackHit(Head(hits)) \o PackHits(Tail(hits))

\* ------------------------------ Phase 2: the index in memory (24-43)

\* Position of word w in the ordered mapping m (a sequence of records with a
\* field word), 0 when it is no key of m.
RECURSIVE KeyPos(_, _, _)
KeyPos(m, w, i) ==
    IF i > Len(m) THEN 0 ELSE IF m[i].word = w THEN i ELSE KeyPos(m, w, i + 1)

HasKey(m, w) == KeyPos(m, w, 1) # 0

\* doc_index after the words ws[i..] are scanned (lines 36-39): a new word gets
\* Hit(doc_id, []) at the end of the mapping, then the position is appended.
RECURSIVE ScanWords(_, _, _, _)
ScanWords(ws, i, doc_id, di) ==
    IF i > Len(ws) THEN di
    ELSE LET p == KeyPos(di, ws[i], 1)
             d1 == IF p = 0
                   THEN Append(di, [word |-> ws[i],
                                    hit |-> [doc_id |-> doc_id, offsets |-> <<>>]])
                   ELSE di
             q == IF p = 0 THEN Len(d1) ELSE p
         IN ScanWords(ws, i + 1, doc_id,
                [d1 EXCEPT ![q].hit.offsets = Append(@, i - 1)])

DocIndex(ws, doc_id) == ScanWords(ws, 1, doc_id, <<>>)

\* Lines 42-43: each hit of the document is appended to its word's list.
RECURSIVE Merge(_, _)
Merge(ix, di) ==
    IF di = <<>> THEN ix
    ELSE LET e == Head(di)
             p == KeyPos(ix, e.word, 1)
         IN Merge(IF p = 0
                  THEN Append(ix, [word |-> e.word, hits |-> <<e.hit>>])
                  ELSE [ix EXCEPT ![p].hits = Append(@, e.hit)],
                  Tail(di))

\* Faulty variant of BuildFrom: doc_id taken after the document is appended.
RECURSIVE BuildFromIdAfterAppend(_, _, _)
BuildFromIdAfterAppend(ds, i, mem) ==
    IF i > Len(ds) THEN mem
    ELSE LET ws == words(ds[i].text)
             doc_id == Len(mem.documents) + 1
         IN BuildFromIdAfterAppend(ds, i + 1,
                [documents |-> Append(mem.documents,
                                      [filename |-> ds[i].filename, size |-> Len(ws)]),
                 index |-> Merge(mem.index, DocIndex(ws, doc_id))])

\* The loop of lines 28-43 from document i on: mem = [documents, index].
RECURSIVE BuildFrom(_, _, _)
BuildFrom(ds, i, mem) ==
    IF i > Len(ds) THEN mem
    ELSE LET ws == words(ds[i].text)
             doc_id == Len(mem.documents)
         IN BuildFrom(ds, i + 1,
                [documents |-> Append(mem.documents,
                                      [filename |-> ds[i].filename, size |-> Len(ws)]),
                 index |-> Merge(mem.index, DocIndex(ws, doc_id))])

BuildIndex(ds) == BuildFrom(ds, 1, [documents |-> <<>>, index |-> <<>>])

\* ---------------------------------------- Phase 2: the three files

\* documents.csv (lines 46-49): one row per document.
DocumentRows(documents) ==
    [i \in 1..Len(documents) |-> <<documents[i].filename, documents[i].size>>]

\* Faulty variant of WriteTerms: the term gets start after start has moved on.
RECURSIVE WriteTermsStartMoved(_, _, _)
WriteTermsStartMoved(ix, i, acc) ==
    IF i > Len(ix) THEN acc
    ELSE LET bytes == PackHits(ix[i].hits)
         IN WriteTermsStartMoved(ix, i + 1,
                [blob |-> acc.blob \o bytes,
                 terms |-> Append(acc.terms,
                                  [word |-> ix[i].word,
                                   start |-> acc.start + Len(bytes),
                                   length |-> Len(bytes)]),
                 start |-> acc.start + Len(bytes)])

\* The loop of lines 53-63 from term i on: acc = [blob, terms, start].  The
\* bytes of a term are written to index.dat, the term gets (start, len(bytes)),
\* start moves on by len(bytes).
RECURSIVE WriteTerms(_, _, _)
WriteTerms(ix, i, acc) ==
    IF i > Len(ix) THEN acc
    ELSE LET bytes == PackHits(ix[i].hits)
         IN WriteTerms(ix, i + 1,
                [blob |-> acc.blob \o bytes,
                 terms |-> Append(acc.terms,
                                  [word |-> ix[i].word, start |-> acc.start,
                                   length |-> Len(bytes)]),
                 start |-> acc.start + Len(bytes)])

WriteIndex(ix) == WriteTerms(ix, 1, [blob |-> <<>>, terms |-> <<>>, start |-> 0])

\* ------------------------------------ Phase 3: Index.lookup (92-113)

\* A file: exists is FALSE when the path is absent (data is then <<>>).
NoFile == [exists |-> FALSE, data |-> <<>>]
FileOf(data) == [exists |-> TRUE, data |-> data]

\* f.seek(start); f.read(length): short when the file ends before start + length.
ReadRange(data, start, length) == Slice(data, start, start + length)

Failed(e) == [err |-> e, hits |-> <<>>]

\* The decoding loop (lines 102-113) from read_pos on.  struct.unpack raises on a
\* buffer that is not 8 bytes long, frombytes on a length that is no multiple of
\* the item size, the assert when the last record ran past the end.
RECURSIVE Decode(_, _, _)
Decode(bytes, read_pos, hits) ==
    IF read_pos < Len(bytes)
    THEN IF Len(Slice(bytes, read_pos, read_pos + HeaderBytes)) # HeaderBytes
         THEN Failed("struct.error")
         ELSE LET doc_id == Unpack32(Slice(bytes, read_pos, read_pos + WordBytes))
                  hit_count == Unpack32(Slice(bytes, read_pos + WordBytes,
                                              read_pos + HeaderBytes))
                  pos1 == read_pos + HeaderBytes
                  offset_bytes == Slice(bytes, pos1, pos1 + WordBytes * hit_count)
                  pos2 == pos1 + WordBytes * hit_count
              IN IF Len(offset_bytes) % WordBytes # 0
                 THEN Failed("ValueError")
                 ELSE Decode(bytes, pos2,
                             Append(hits, [doc_id |-> doc_id,
                                           offsets |-> FromBytes(offset_bytes)]))
    ELSE IF read_pos = Len(bytes)
         THEN [err |-> "", hits |-> hits]
         ELSE Failed("AssertionError")

\* Faulty variant of Lookup: no test for a word that is not in terms, so that
\* self.terms[word] raises.
LookupUnguarded(ix, file, word) ==
    LET p == KeyPos(ix.terms, word, 1)
    IN IF p = 0 THEN Failed("KeyError")
       ELSE IF ~file.exists THEN Failed("FileNotFoundError")
       ELSE Decode(ReadRange(file.data, ix.terms[p].start, ix.terms[p].length),
                   0, <<>>)

\* lookup(word) of the Index ix (its documents and terms) over the file index.dat.
Lookup(ix, file, word) ==
    LET p == KeyPos(ix.terms, word, 1)
    IN IF p = 0 THEN [err |-> "", hits |-> <<>>]
       ELSE IF ~file.exists THEN Failed("FileNotFoundError")
       ELSE Decode(ReadRange(file.data, ix.terms[p].start, ix.terms[p].length),
                   0, <<>>)

\* ------------------------------------ Phase 3: Index.search (115-134)

TopK == 10
TfScale == 1000

\* 1000 * ln(n), rounded, for n = 1..16.
LnMilli ==
    << 0, 693, 1099, 1386, 1609, 1792, 1946, 2079,
       2197, 2303, 2398, 2485, 2565, 2639, 2708, 2773 >>

\* Faulty variant of Idf: the smoothed ln((n + 1) / k), never 0.
IdfSmoothed(k, n) == LnMilli[n + 1] - LnMilli[k]

\* idf = math.log(1 / (k / n)) = ln(n) - ln(k), in thousandths: 0 exactly when
\* k = n, positive when k < n, negative when k > n.
Idf(k, n) == LnMilli[n] - LnMilli[k]

\* tf * idf for count occurrences in a document of size tokens, in thousandths
\* (rounded down): the sign, and being 0, are those of idf.
Score(count, size, idf) == (TfScale * count * idf) \div size

\* Faulty variant of AddScore: a score of zero makes no entry.
AddScoreSkipZero(scores, doc_id, s) ==
    LET P == {i \in 1..Len(scores) : scores[i].doc_id = doc_id}
    IN IF P = {}
       THEN IF s = 0 THEN scores ELSE Append(scores, [doc_id |-> doc_id, score |-> s])
       ELSE LET p == CHOOSE i \in P : TRUE
            IN [scores EXCEPT ![p].score = @ + s]

\* scores[doc_id] += s on a defaultdict(float): a new key goes last.
AddScore(scores, doc_id, s) ==
    LET P == {i \in 1..Len(scores) : scores[i].doc_id = doc_id}
    IN IF P = {}
       THEN Append(scores, [doc_id |-> doc_id, score |-> s])
       ELSE LET p == CHOOSE i \in P : TRUE
            IN [scores EXCEPT ![p].score = @ + s]

\* Lines 126-128 for the hits from i on; acc = [err, scores].
RECURSIVE ScoreHits(_, _, _, _, _)
ScoreHits(ix, hits, i, idf, acc) ==
    IF i > Len(hits) THEN acc
    ELSE LET h == hits[i]
         IN IF h.doc_id >= Len(ix.documents)
            THEN [acc EXCEPT !.err = "IndexError"]
            ELSE IF ix.documents[h.doc_id + 1].size = 0
            THEN [acc EXCEPT !.err = "ZeroDivisionError"]
            ELSE ScoreHits(ix, hits, i + 1, idf,
                    [acc EXCEPT !.scores =
                        AddScore(@, h.doc_id,
                                 Score(Len(h.offsets),
                                       ix.documents[h.doc_id + 1].size, idf))])

\* Lines 121-128 for the query words from i on.
RECURSIVE ScoreWords(_, _, _, _, _)
ScoreWords(ix, file, ws, i, scores) ==
    IF i > Len(ws) THEN [err |-> "", scores |-> scores]
    ELSE LET r == Lookup(ix, file, ws[i])
         IN IF r.err # "" THEN [err |-> r.err, scores |-> scores]
            ELSE IF r.hits = <<>> THEN ScoreWords(ix, file, ws, i + 1, scores)
            ELSE IF Len(ix.documents) = 0
            THEN [err |-> "ZeroDivisionError", scores |-> scores]
            ELSE LET a == ScoreHits(ix, r.hits, 1,
                                    Idf(Len(r.hits), Len(ix.documents)),
                                    [err |-> "", scores |-> scores])
                 IN IF a.err # "" THEN a
                    ELSE ScoreWords(ix, file, ws, i + 1, a.scores)

\* Faulty variant of InsertDesc: ascending (reverse=True forgotten).
RECURSIVE InsertAsc(_, _)
InsertAsc(sorted, e) ==
    IF sorted = <<>> THEN <<e>>
    ELSE IF Head(sorted).score <= e.score
         THEN <<Head(sorted)>> \o InsertAsc(Tail(sorted), e)
         ELSE <<e>> \o sorted

\* e put behind every element whose score is >= its own.
RECURSIVE InsertDesc(_, _)
InsertDesc(sorted, e) ==
    IF sorted = <<>> THEN <<e>>
    ELSE IF Head(sorted).score >= e.score
         THEN <<Head(sorted)>> \o InsertDesc(Tail(sorted), e)
         ELSE <<e>> \o sorted

\* sorted(scores.items(), key=score, reverse=True): stable, equal scores keep
\* the order of the dict.
RECURSIVE SortDesc(_, _)
SortDesc(items, sorted) ==
    IF items = <<>> THEN sorted
    ELSE SortDesc(Tail(items), InsertDesc(sorted, Head(items)))

\* search(query): res = [err, scores (the dict before sorting), results].
Search(ix, file, query) ==
    LET a == ScoreWords(ix, file, words(query), 1, <<>>)
        top == Slice(SortDesc(a.scores, <<>>), 0, TopK)
    IN IF a.err # ""
       THEN [err |-> a.err, scores |-> a.scores, results |-> <<>>]
       ELSE [err |-> "", scores |-> a.scores,
             results |-> [i \in 1..Len(top) |->
                            [filename |-> ix.documents[top[i].doc_id + 1].filename,
                             doc_id |-> top[i].doc_id,
                             score |-> top[i].score]]]

\* ------------------------------------ Phase 3: Index.__init__ (77-90)

\* The Index object, or the error its construction ended in (no object then).
NoIndex == [ok |-> FALSE, err |-> "", documents |-> <<>>, terms |-> <<>>]

Load(documentsFile, termsFile) ==
    IF ~documentsFile.exists \/ ~termsFile.exists
    THEN [NoIndex EXCEPT !.err = "FileNotFoundError"]
    ELSE [ok |-> TRUE, err |-> "",
          documents |-> [i \in 1..Len(documentsFile.data) |->
                            [filename |-> documentsFile.data[i][1],
                             size |-> documentsFile.data[i][2]]],
          terms |-> termsFile.data]

\* ------------------------------------------------------------ inputs

\* The documents dir.glob finds, in the order it yields them, with their texts.
MkDocs(texts) == [i \in 1..Len(texts) |-> [filename |-> i, text |-> texts[i]]]

\* flat cut into pieces of the lengths lens (whose sum is Len(flat)).
RECURSIVE Split(_, _)
Split(flat, lens) ==
    IF lens = <<>> THEN <<>>
    ELSE <<SubSeq(flat, 1, Head(lens))>>
         \o Split(SubSeq(flat, Head(lens) + 1, Len(flat)), Tail(lens))

RECURSIVE Sum(_)
Sum(ns) == IF ns = <<>> THEN 0 ELSE Head(ns) + Sum(Tail(ns))

\* Every sequence of at most maxDocs texts over chars with at most maxChars
\* characters in all.
DocSets(chars, maxDocs, maxChars) ==
    {MkDocs(Split(flat, lens)) :
        <<flat, lens>> \in
            {fl \in SeqsUpTo(chars, maxChars) \X SeqsUpTo(0..maxChars, maxDocs) :
                Sum(fl[2]) = Len(fl[1])}}

\* ------------------------------------------------------------- state

VARIABLES
    docs,          \* the documents of the running (or last) make_index call
    pc,            \* ready | build | saveDocuments | saveIndex | saveTerms | done | failed
    mem,           \* make_index: documents and index (lines 24-25)
    terms,         \* make_index: terms (line 26)
    tinyDir,       \* whether dir/.tiny exists
    documentsCsv,  \* .tiny/documents.csv
    indexDat,      \* .tiny/index.dat
    termsCsv,      \* .tiny/terms.csv
    prev,          \* history: the three files when make_index was called
    calls,         \* history: how often make_index was called
    idx,           \* the Index object of the last Index(dir)
    out            \* a lookup or search and what it returned

vars == <<docs, pc, mem, terms, tinyDir, documentsCsv, indexDat, termsCsv,
          prev, calls, idx, out>>

files == [documents |-> documentsCsv, index |-> indexDat, terms |-> termsCsv]

NoOut == [op |-> "none", arg |-> <<>>, err |-> "", hits |-> <<>>,
          scores |-> <<>>, results |-> <<>>]

\* An Index is constructed, and asked, between two make_index calls: idx and out
\* are dropped when the files change.  lookup and search change nothing of the
\* Index or the files, so what a call returns does not depend on the calls
\* before it: out keeps one call, the first on the files as they are.
Unobserved == out.op = "none"

EmptyMem == [documents |-> <<>>, index |-> <<>>]

Init ==
    /\ docs = <<>>
    /\ pc = "ready"
    /\ mem = EmptyMem
    /\ terms = <<>>
    /\ tinyDir = FALSE
    /\ documentsCsv = NoFile
    /\ indexDat = NoFile
    /\ termsCsv = NoFile
    /\ prev = [documents |-> NoFile, index |-> NoFile, terms |-> NoFile]
    /\ calls = 0
    /\ idx = NoIndex
    /\ out = NoOut

Returned == pc \in {"ready", "done", "failed"}

\* --------------------------------------------------- make_index (18-69)

MaxCalls == 2

\* Lines 18-21: make_index(dir) is called on the documents d; .tiny is made.
Call(d) ==
    /\ docs' = d
    /\ prev' = files
    /\ mem' = EmptyMem
    /\ terms' = <<>>
    /\ calls' = calls + 1
    /\ idx' = NoIndex
    /\ out' = NoOut
    /\ UNCHANGED <<documentsCsv, indexDat, termsCsv>>

make_index(D) ==
    /\ pc = "ready"
    /\ \E d \in D : Call(d)
    /\ tinyDir' = TRUE
    /\ pc' = "build"

\* make_index on a directory that an earlier call has worked on.  The call
\* drops idx and out, so it is taken from the state that has neither.
make_index_again(D) ==
    /\ pc \in {"done", "failed"}
    /\ calls < MaxCalls
    /\ idx = NoIndex
    /\ \E d \in D : Call(d)
    /\ tinyDir' = TRUE
    /\ pc' = "build"

\* Line 21 raises: the directory cannot be made.
mkdir_fail(D) ==
    /\ pc = "ready"
    /\ ~tinyDir
    /\ \E d \in D : Call(d)
    /\ pc' = "failed"
    /\ UNCHANGED tinyDir

\* Lines 24-43.
build ==
    /\ pc = "build"
    /\ mem' = BuildIndex(docs)
    /\ pc' = "saveDocuments"
    /\ UNCHANGED <<docs, terms, tinyDir, documentsCsv, indexDat, termsCsv, prev, calls, idx, out>>

\* Lines 46-49.
save_documents ==
    /\ pc = "saveDocuments"
    /\ documentsCsv' = FileOf(DocumentRows(mem.documents))
    /\ pc' = "saveIndex"
    /\ UNCHANGED <<docs, mem, terms, tinyDir, indexDat, termsCsv, prev, calls, idx, out>>

\* What a failed write of data leaves of a file f: f as it was when open()
\* raised, else the part of data that reached the disk.
Leftovers(f, data) ==
    {f} \cup {FileOf(SubSeq(data, 1, k)) : k \in 0..(Len(data) - 1)}

save_documents_fail ==
    /\ pc = "saveDocuments"
    /\ documentsCsv' \in Leftovers(documentsCsv, DocumentRows(mem.documents))
    /\ pc' = "failed"
    /\ UNCHANGED <<docs, mem, terms, tinyDir, indexDat, termsCsv, prev, calls, idx, out>>

\* Lines 52-63.
save_index ==
    /\ pc = "saveIndex"
    /\ indexDat' = FileOf(WriteIndex(mem.index).blob)
    /\ terms' = WriteIndex(mem.index).terms
    /\ pc' = "saveTerms"
    /\ UNCHANGED <<docs, mem, tinyDir, documentsCsv, termsCsv, prev, calls, idx, out>>

save_index_fail ==
    /\ pc = "saveIndex"
    /\ indexDat' \in Leftovers(indexDat, WriteIndex(mem.index).blob)
    /\ pc' = "failed"
    /\ UNCHANGED <<docs, mem, terms, tinyDir, documentsCsv, termsCsv, prev, calls, idx, out>>

\* Lines 66-69.
save_terms ==
    /\ pc = "saveTerms"
    /\ termsCsv' = FileOf(terms)
    /\ pc' = "done"
    /\ UNCHANGED <<docs, mem, terms, tinyDir, documentsCsv, indexDat, prev, calls, idx, out>>

save_terms_fail ==
    /\ pc = "saveTerms"
    /\ termsCsv' \in Leftovers(termsCsv, terms)
    /\ pc' = "failed"
    /\ UNCHANGED <<docs, mem, terms, tinyDir, documentsCsv, indexDat, prev, calls, idx, out>>

\* ------------------------------------------------------- Index (74-134)

Index_init ==
    /\ Returned
    /\ idx' = Load(documentsCsv, termsCsv)
    /\ UNCHANGED <<docs, pc, mem, terms, tinyDir, documentsCsv, indexDat, termsCsv,
                   prev, calls, out>>

Index_lookup(W) ==
    /\ Returned
    /\ idx.ok
    /\ Unobserved
    /\ \E w \in W :
          LET r == Lookup(idx, indexDat, w)
          IN out' = [op |-> "lookup", arg |-> w, err |-> r.err, hits |-> r.hits,
                     scores |-> <<>>, results |-> <<>>]
    /\ UNCHANGED <<docs, pc, mem, terms, tinyDir, documentsCsv, indexDat, termsCsv,
                   prev, calls, idx>>

Index_search(Q) ==
    /\ Returned
    /\ idx.ok
    /\ Unobserved
    /\ \E q \in Q :
          LET r == Search(idx, indexDat, q)
          IN out' = [op |-> "search", arg |-> q, err |-> r.err, hits |-> <<>>,
                     scores |-> r.scores, results |-> r.results]
    /\ UNCHANGED <<docs, pc, mem, terms, tinyDir, documentsCsv, indexDat, termsCsv,
                   prev, calls, idx>>

\* Someone removes one of the three files between two calls.
lose_file ==
    /\ Returned
    /\ \/ /\ documentsCsv.exists
          /\ documentsCsv' = NoFile
          /\ UNCHANGED <<indexDat, termsCsv>>
       \/ /\ indexDat.exists
          /\ indexDat' = NoFile
          /\ UNCHANGED <<documentsCsv, termsCsv>>
       \/ /\ termsCsv.exists
          /\ termsCsv' = NoFile
          /\ UNCHANGED <<documentsCsv, indexDat>>
    /\ idx' = NoIndex
    /\ out' = NoOut
    /\ UNCHANGED <<docs, pc, mem, terms, tinyDir, prev, calls>>

\* ------------------------------------------------------ specifications

MaxDocs == 2
MaxChars == 4
MaxLookupChars == 5
MaxWord == 2
MaxQueryWords == 2

\* The words of ws with one space between them.
RECURSIVE Join(_)
Join(ws) ==
    IF ws = <<>> THEN <<>>
    ELSE IF Len(ws) = 1 THEN Head(ws)
    ELSE Head(ws) \o <<" ">> \o Join(Tail(ws))

CorpusChars == {"a", "B", " "}
Corpus == DocSets(CorpusChars, MaxDocs, MaxChars)
LookupWords == SeqsUpTo(LowerChars, MaxWord) \ {<<>>}
QueryWords == {<<"a">>, <<"B">>}
Queries == {Join(ws) : ws \in SeqsUpTo(QueryWords, MaxQueryWords)}

\* One make_index call on a fresh directory, no I/O failure, then queries.
Next ==
    \/ make_index(Corpus)
    \/ build
    \/ save_documents
    \/ save_index
    \/ save_terms
    \/ Index_init
    \/ Index_lookup(LookupWords)
    \/ Index_search(Queries)

Spec == Init /\ [][Next]_vars

\* The same with longer texts, and lookup alone.
LookupCorpus == DocSets(CorpusChars, MaxDocs, MaxLookupChars)

NextLookup ==
    \/ make_index(LookupCorpus)
    \/ build
    \/ save_documents
    \/ save_index
    \/ save_terms
    \/ Index_init
    \/ Index_lookup(LookupWords)

SpecLookup == Init /\ [][NextLookup]_vars

\* make_index called again on the directory of an earlier call (no I/O failure).
SmallMaxDocs == 2
SmallMaxChars == 2

SmallChars == {"a", "B"}
SmallCorpus == DocSets(SmallChars, SmallMaxDocs, SmallMaxChars)
SmallWords == {<<"a">>, <<"b">>}
SmallQueries == {<<>>, <<"a">>, <<"B">>}

NextAgain ==
    \/ make_index(SmallCorpus)
    \/ make_index_again(SmallCorpus)
    \/ build
    \/ save_documents
    \/ save_index
    \/ save_terms
    \/ Index_init
    \/ Index_lookup(SmallWords)
    \/ Index_search(SmallQueries)

SpecAgain == Init /\ [][NextAgain]_vars

\* The same, and an I/O failure may end any call.
NextFail ==
    \/ make_index(SmallCorpus)
    \/ make_index_again(SmallCorpus)
    \/ mkdir_fail(SmallCorpus)
    \/ build
    \/ save_documents
    \/ save_documents_fail
    \/ save_index
    \/ save_index_fail
    \/ save_terms
    \/ save_terms_fail
    \/ Index_init
    \/ Index_lookup(SmallWords)
    \/ Index_search(SmallQueries)

SpecFail == Init /\ [][NextFail]_vars

\* The same, and files may be removed between the calls.
NextEnv == NextFail \/ lose_file

SpecEnv == Init /\ [][NextEnv]_vars

\* Many one-word documents: more documents than search returns.
MaxTopDocs == 11

TopTexts == {<<"a">>, <<"B">>}
TopCorpus == {MkDocs(ts) : ts \in SeqsUpTo(TopTexts, MaxTopDocs)}
TopQueries == {<<"a">>, <<"a", " ", "B">>}

NextTop ==
    \/ make_index(TopCorpus)
    \/ build
    \/ save_documents
    \/ save_index
    \/ save_terms
    \/ Index_init
    \/ Index_search(TopQueries)

SpecTop == Init /\ [][NextTop]_vars

\* Long documents: k times the word a, then the word b up to n words.
MaxTokens == 10
MaxCount == 5
MaxLongDocs == 2

TokText(k, n) == Join([i \in 1..n |-> IF i <= k THEN <<"a">> ELSE <<"b">>])
LongTexts == {TokText(k, n) : k \in 0..MaxCount, n \in (MaxTokens - 1)..MaxTokens}
LongCorpus == {MkDocs(ts) : ts \in SeqsUpTo(LongTexts, MaxLongDocs)}
LongQueries == {<<"a">>, <<"B">>}

NextLong ==
    \/ make_index(LongCorpus)
    \/ build
    \/ save_documents
    \/ save_index
    \/ save_terms
    \/ Index_init
    \/ Index_search(LongQueries)

SpecLong == Init /\ [][NextLong]_vars

\* ------------------------------------------------------------ claims

\* The ascending 0-based positions of w in the word sequence ws.
RECURSIVE Positions(_, _, _)
Positions(ws, w, i) ==
    IF i > Len(ws) THEN <<>>
    ELSE (IF ws[i] = w THEN <<i - 1>> ELSE <<>>) \o Positions(ws, w, i + 1)

\* One posting per document of ds[i..] that contains w, in the order of ds.
RECURSIVE ExpectedHits(_, _, _)
ExpectedHits(ds, w, i) ==
    IF i > Len(ds) THEN <<>>
    ELSE LET pos == Positions(words(ds[i].text), w, 1)
         IN (IF pos = <<>> THEN <<>> ELSE <<[doc_id |-> i - 1, offsets |-> pos]>>)
            \o ExpectedHits(ds, w, i + 1)

Occurs(w, ds) == \E i \in 1..Len(ds) : w \in Range(words(ds[i].text))

AllExist == documentsCsv.exists /\ indexDat.exists /\ termsCsv.exists

\* C1: after a completed make_index, lookup(t) of a term t that occurs in some
\* document returns, without error, exactly one posting per document that
\* contains t, in ascending doc_id order, each with the ascending 0-based
\* positions of t in words(text) of that document.
C1_RoundTrip ==
    (pc = "done" /\ out.op = "lookup" /\ Occurs(out.arg, docs))
        => (out.err = "" /\ out.hits = ExpectedHits(docs, out.arg, 1))

\* C1 witness: the text "a B a" is indexed and lookup("a") gave offsets [0, 2].
C1_Witness ==
    /\ pc = "done"
    /\ Len(docs) = 1
    /\ docs[1].text = <<"a", " ", "B", " ", "a">>
    /\ out.op = "lookup"
    /\ out.arg = <<"a">>
    /\ out.hits = <<[doc_id |-> 0, offsets |-> <<0, 2>>]>>

\* C2: after a completed make_index the (start, length) pairs of terms.csv
\* partition index.dat: the first start is 0, every later start is the sum of
\* the lengths before it, no two ranges overlap and the lengths add up to the
\* size of index.dat.
C2_Partition ==
    pc = "done" =>
        LET t == termsCsv.data
            lens == [i \in 1..Len(t) |-> t[i].length]
        IN /\ AllExist
           /\ \A i \in 1..Len(t) : t[i].start = Sum(SubSeq(lens, 1, i - 1))
           /\ \A i, j \in 1..Len(t) :
                 i < j => t[i].start + t[i].length <= t[j].start
           /\ Sum(lens) = Len(indexDat.data)

\* C2 witness: a second make_index call on the directory has completed and wrote
\* at least two terms.
C2_Witness ==
    /\ pc = "done"
    /\ calls = 2
    /\ Len(termsCsv.data) >= 2
    /\ termsCsv.data[2].start > 0

\* C3 (the claim): a lookup that returns a postings list has read exactly the
\* declared length bytes and they are exactly the records of the list returned;
\* any other range read ends lookup in an error.
C3_DecodeLandsOnBoundary ==
    (idx.ok /\ out.op = "lookup" /\ out.err = "" /\ HasKey(idx.terms, out.arg))
        => LET e == idx.terms[KeyPos(idx.terms, out.arg, 1)]
               bytes == ReadRange(indexDat.data, e.start, e.length)
           IN Len(bytes) = e.length /\ PackHits(out.hits) = bytes

\* C4: on any Index, lookup of a word that is not in terms returns the empty
\* list, and search of a query none of whose words is in terms (the empty query
\* too) returns the empty list, both without error.
C4_AbsentTerms ==
    /\ (idx.ok /\ out.op = "lookup" /\ ~HasKey(idx.terms, out.arg))
          => (out.err = "" /\ out.hits = <<>>)
    /\ (idx.ok /\ out.op = "search"
          /\ \A w \in Range(words(out.arg)) : ~HasKey(idx.terms, w))
          => (out.err = "" /\ out.results = <<>>)

\* C4 witness: an index built from zero documents was searched for a word.
C4_Witness ==
    /\ idx.ok
    /\ pc = "done"
    /\ idx.documents = <<>>
    /\ out.op = "search"
    /\ words(out.arg) # <<>>
    /\ out.err = ""
    /\ out.results = <<>>

\* C5: search returns min(10, n) of the n scored documents, each once, with its
\* accumulated score, in non-increasing order of score, and no scored document
\* left out has a higher score than one returned.
C5_TopTen ==
    (out.op = "search" /\ out.err = "") =>
        LET r == out.results
            sc == out.scores
            returned == {r[i].doc_id : i \in 1..Len(r)}
        IN /\ Len(r) <= 10
           /\ Len(r) = Min(10, Len(sc))
           /\ \A i, j \in 1..Len(r) : i < j =>
                 r[i].score >= r[j].score /\ r[i].doc_id # r[j].doc_id
           /\ \A i \in 1..Len(r) : \E k \in 1..Len(sc) :
                 sc[k].doc_id = r[i].doc_id /\ sc[k].score = r[i].score
           /\ \A k \in 1..Len(sc) : sc[k].doc_id \notin returned =>
                 \A i \in 1..Len(r) : sc[k].score <= r[i].score

\* C5 witness: more than 10 documents were scored, with two different scores
\* among those returned.
C5_Witness ==
    /\ out.op = "search"
    /\ out.err = ""
    /\ Len(out.scores) > 10
    /\ Len(out.results) = 10
    /\ out.results[1].score > out.results[10].score

\* The documents of ds that hold a word of the query, as doc_ids.
Matching(ds, query) ==
    {i - 1 : i \in {j \in 1..Len(ds) :
                      Range(words(ds[j].text)) \cap Range(words(query)) # {}}}

C7_Case(a, b) ==
    /\ pc = "done"
    /\ out.op = "search"
    /\ Len(words(out.arg)) = 1
    /\ Len(docs) = 2
    /\ {a, b} = {0, 1}
    /\ Len(words(docs[a + 1].text)) = 10
    /\ Len(words(docs[b + 1].text)) = 10
    /\ Len(Positions(words(docs[a + 1].text), words(out.arg)[1], 1)) = 1
    /\ Len(Positions(words(docs[b + 1].text), words(out.arg)[1], 1)) = 5

\* The place of doc_id d in the results, 0 when it is not returned.
Place(d) ==
    LET P == {i \in 1..Len(out.results) : out.results[i].doc_id = d}
    IN IF P = {} THEN 0 ELSE CHOOSE i \in P : TRUE

\* C7 (the claim): in that case B is ranked above A, whichever came first.
C7_BAboveA ==
    \A a, b \in {0, 1} :
        C7_Case(a, b) => (Place(b) # 0 /\ Place(a) # 0 /\ Place(b) < Place(a))

\* C7 (amended): in that case both documents are returned with score 0 (the word
\* is in every document, idf = ln 1 = 0) in ascending doc_id order: B stands
\* above A only when B was discovered first.
C7_TieInDocIdOrder ==
    \A a, b \in {0, 1} :
        C7_Case(a, b) =>
            /\ out.err = ""
            /\ Len(out.results) = 2
            /\ out.results[1].doc_id = 0 /\ out.results[1].score = 0
            /\ out.results[2].doc_id = 1 /\ out.results[2].score = 0

\* C7 witness: the case with A discovered first, and A returned first.
C7_Witness ==
    /\ C7_Case(0, 1)
    /\ Place(0) = 1
    /\ Place(1) = 2

\* The three files as a completed make_index over ds writes them.
NewFiles(ds) ==
    LET m == BuildIndex(ds)
        w == WriteIndex(m.index)
    IN [documents |-> FileOf(DocumentRows(m.documents)),
        index |-> FileOf(w.blob),
        terms |-> FileOf(w.terms)]

\* C8 (the claim): after a make_index call that an I/O failure ended, the three
\* files are all as they were before the call or all as the completed call
\* would have written them.
C8_AllOrNothing ==
    pc = "failed" => (files = prev \/ files = NewFiles(docs))

\* C9 (the claim): an Index is constructed only when all three files exist, so
\* no search returns a list while one of them is absent.
C9_MissingIndexFails ==
    /\ idx.ok => AllExist
    /\ (out.op = "search" /\ out.err = "") => AllExist

\* C10: after a completed make_index every posting of every term has a doc_id
\* that indexes a row of the document table, at least one and at most
\* token_count offsets, all below token_count; so a document of no tokens is in
\* no posting, and no search ends in a division by zero.
C10_PostingsWithinDocuments ==
    pc = "done" =>
        LET rows == documentsCsv.data
        IN /\ \A t \in 1..Len(termsCsv.data) :
                 LET e == termsCsv.data[t]
                     r == Decode(ReadRange(indexDat.data, e.start, e.length), 0, <<>>)
                 IN /\ r.err = ""
                    /\ r.hits # <<>>
                    /\ \A h \in 1..Len(r.hits) :
                          LET hit == r.hits[h]
                          IN /\ hit.doc_id \in 0..(Len(rows) - 1)
                             /\ Len(hit.offsets) >= 1
                             /\ Len(hit.offsets) <= rows[hit.doc_id + 1][2]
                             /\ \A o \in 1..Len(hit.offsets) :
                                   hit.offsets[o] \in 0..(rows[hit.doc_id + 1][2] - 1)
           /\ out.op \in {"lookup", "search"}
                 => out.err \notin {"ZeroDivisionError", "IndexError"}

\* C10 witness: a document of no tokens is in the table and a search returned
\* another document.
C10_Witness ==
    /\ pc = "done"
    /\ \E i \in 1..Len(mem.documents) : mem.documents[i].size = 0
    /\ out.op = "search"
    /\ out.results # <<>>

====
